---- MODULE Spec2Model ----
(***************************************************************************)
(* Model of the public-health job scraper: the requests/BeautifulSoup      *)
(* variant (src/fn.py), the Selenium variant with its Streamlit front end  *)
(* (src/branch.py) and the Streamlit front end alone (src/JOB.py).         *)
(*                                                                         *)
(* A Python str is modelled as a sequence of one-character strings, so     *)
(* that lower(), substring tests and strftime are computed, not assumed.   *)
(***************************************************************************)
EXTENDS Integers, Sequences, FiniteSets, TLC

VARIABLES
    program,        \* which program runs: "fn", "branch" or "JOB"
    search_terms,   \* the terms ticked in the sidebar, in list order
    sites,          \* the sites ticked in the sidebar, in list order
    max_jobs_per_search, \* the slider "Max jobs per search term"
    clock,          \* datetime.now() of the run, as a date
    pc,             \* where the run is
    i,              \* index of the current term (1-based)
    j,              \* index of the current site within scrape_development_sites
    term_jobs,      \* all_jobs of scrape_development_sites for the current term
    all_jobs,       \* all_jobs of the run: the filtered jobs of the terms so far
    unique_jobs,    \* the collection the run hands over
    driver,         \* the Chrome driver: "none", "open" or "closed"
    close_calls,    \* history: how many times scraper.close() was called
    progress,       \* last value given to progress_bar.progress, as num/den
    status,         \* last text given to status_text.text
    errors,         \* the st.error messages so far
    log,            \* history: every request and every time.sleep, in order
    failed,         \* history: the (term index, site) pairs whose adapter caught an exception
    fcall,          \* inputs of the function call under examination
    fret            \* its result: [done, value]

vars == <<program, search_terms, sites, max_jobs_per_search, clock, pc, i, j, term_jobs,
          all_jobs,
          unique_jobs, driver, close_calls, progress, status, errors, log, failed, fcall,
          fret>>

config == <<program, search_terms, sites, max_jobs_per_search, clock>>

run == <<pc, i, j, term_jobs, all_jobs, unique_jobs, driver, close_calls, progress, status,
        errors, log, failed>>

-----------------------------------------------------------------------------
(* Python values *)

\* Python's None. Texts hold one-character strings only, so no text equals it.
None == <<"None">>

\* `not x` for a str-or-None value x: None and '' are falsy.
Falsy(x) == x = None \/ x = <<>>

LowerMap ==
    [A |-> "a", B |-> "b", C |-> "c", D |-> "d", E |-> "e", F |-> "f", G |-> "g",
     H |-> "h", I |-> "i", J |-> "j", K |-> "k", L |-> "l", M |-> "m", N |-> "n",
     O |-> "o", P |-> "p", Q |-> "q", R |-> "r", S |-> "s", T |-> "t", U |-> "u",
     V |-> "v", W |-> "w", X |-> "x", Y |-> "y", Z |-> "z"]

UpperCase == DOMAIN LowerMap

LowerCase == {LowerMap[c] : c \in UpperCase}

\* str.lower()
Lower(s) == [k \in 1..Len(s) |-> IF s[k] \in UpperCase THEN LowerMap[s[k]] ELSE s[k]]

\* `p in s` for two str values
IsSubstring(p, s) ==
    \E k \in 0..(Len(s) - Len(p)) : \A m \in 1..Len(p) : s[k + m] = p[m]

-----------------------------------------------------------------------------
(* datetime.now(), timedelta(days=1) and strftime('%d %b %Y') *)

Digit == <<"0", "1", "2", "3", "4", "5", "6", "7", "8", "9">>

MonthAbbr ==
    << <<"J","a","n">>, <<"F","e","b">>, <<"M","a","r">>, <<"A","p","r">>,
       <<"M","a","y">>, <<"J","u","n">>, <<"J","u","l">>, <<"A","u","g">>,
       <<"S","e","p">>, <<"O","c","t">>, <<"N","o","v">>, <<"D","e","c">> >>

IsLeap(y) == (y % 4 = 0 /\ y % 100 # 0) \/ y % 400 = 0

DaysInMonth(m, y) ==
    IF m = 2 THEN (IF IsLeap(y) THEN 29 ELSE 28)
    ELSE IF m \in {4, 6, 9, 11} THEN 30 ELSE 31

\* date - timedelta(days=1)
PrevDay(date) ==
    IF date.d > 1 THEN [date EXCEPT !.d = date.d - 1]
    ELSE IF date.m > 1
         THEN [d |-> DaysInMonth(date.m - 1, date.y), m |-> date.m - 1, y |-> date.y]
         ELSE [d |-> 31, m |-> 12, y |-> date.y - 1]

\* strftime('%d %b %Y'): zero-padded day, capitalised month abbreviation, year
strftime(date) ==
    <<Digit[(date.d \div 10) + 1], Digit[(date.d % 10) + 1], " ">>
    \o MonthAbbr[date.m]
    \o <<" ", Digit[(date.y \div 1000) + 1], Digit[((date.y \div 100) % 10) + 1],
         Digit[((date.y \div 10) % 10) + 1], Digit[(date.y % 10) + 1]>>

-----------------------------------------------------------------------------
(* is_recent_job: the same text in SimpleJobScraper and EnhancedJobScraper *)

recent_indicators(now) ==
    << <<"h","o","u","r","s"," ","a","g","o">>,
       <<"h","o","u","r"," ","a","g","o">>,
       <<"t","o","d","a","y">>,
       <<"j","u","s","t"," ","n","o","w">>,
       <<"1"," ","d","a","y"," ","a","g","o">>,
       <<"y","e","s","t","e","r","d","a","y">>,
       strftime(now),
       strftime(PrevDay(now)) >>

\* The classifier with the lower() call dropped.
is_recent_job_no_lower(date_text, now) ==
    IF Falsy(date_text) THEN FALSE
    ELSE \E k \in 1..Len(recent_indicators(now)) :
            IsSubstring(recent_indicators(now)[k], date_text)

is_recent_job(date_text, now) ==
    IF Falsy(date_text) THEN FALSE
    ELSE LET date_text_lower == Lower(date_text)
         IN  \E k \in 1..Len(recent_indicators(now)) :
                IsSubstring(recent_indicators(now)[k], date_text_lower)

-----------------------------------------------------------------------------
(* Sequences as Python lists *)

Min(a, b) == IF a <= b THEN a ELSE b

\* s[:n] for n >= 0
Take(s, n) == SubSeq(s, 1, Min(n, Len(s)))

\* The concatenation of ss[1], ..., ss[Len(ss)]: a loop that appends what each
\* element yields (nothing for an element that is skipped).
Flatten(ss) ==
    LET F[k \in 0..Len(ss)] == IF k = 0 THEN <<>> ELSE F[k - 1] \o ss[k]
    IN  F[Len(ss)]

-----------------------------------------------------------------------------
(* What a site sends back.                                                 *)
(*                                                                         *)
(* A raw item is one entry of the JSON payload or one job element of the   *)
(* page, reduced to the fields the adapters read; a field the entry lacks  *)
(* is None:                                                                *)
(*   id    item['id'] of the API, as a one-piece sequence                  *)
(*   title fields.title; the text of the title element (h3 a, h3 or h2)    *)
(*   href  the link's href, as a sequence of URL pieces; NoLink when the   *)
(*         element holds no link at all, None for a link without href      *)
(*   date  fields.date.created; the text of the time element               *)
(*   org   fields.source[0].name; the text of dd / .org                    *)
(* location and scraped_at are carried by the code unread and are left out.*)
(* A response is [status, items, articles]: articles are what the page     *)
(* holds under the selector Devex tries second.                            *)

NoLink == <<"NoLink">>

RW == "https://reliefweb.int"

DX == "https://www.devex.com"

UN == "https://unjobs.org"

\* url.startswith('http')
StartsWithHttp(url) == Len(url) > 0 /\ url[1] \in {RW, DX, UN}

Unknown == <<"U","n","k","n","o","w","n">>

Recent == <<"R","e","c","e","n","t">>

NoTitle == <<"N","o"," ","t","i","t","l","e">>

UnknownOrganization ==
    <<"U","n","k","n","o","w","n"," ","O","r","g","a","n","i","z","a","t","i","o","n">>

DevelopmentOrganization ==
    <<"D","e","v","e","l","o","p","m","e","n","t"," ","O","r","g","a","n","i","z","a","t","i","o","n">>

UNAgency == <<"U","N"," ","A","g","e","n","c","y">>

OrDefault(x, default) == IF x = None THEN default ELSE x

-----------------------------------------------------------------------------
(* SimpleJobScraper (fn.py): the adapters *)

\* One pass of the loop body of scrape_reliefweb: the posting in a list, or
\* the empty list when item['id'] raises KeyError and the item is skipped.
reliefweb_api_item(item, search_term, now) ==
    IF item.id = None THEN <<>>
    ELSE LET date_posted == OrDefault(item.date, Unknown)
         IN  << [title |-> OrDefault(item.title, NoTitle),
                 organization |-> OrDefault(item.org, UnknownOrganization),
                 url |-> <<RW, "/job/">> \o item.id,
                 date_posted |-> date_posted,
                 source |-> "reliefweb",
                 search_term |-> search_term,
                 is_recent |-> is_recent_job(date_posted, now)] >>

\* One pass of the loop body of scrape_reliefweb_html.
reliefweb_html_item(item, search_term, now) ==
    IF item.title = None THEN <<>>
    ELSE LET date_posted == OrDefault(item.date, Unknown)
         IN  << [title |-> item.title,
                 organization |-> OrDefault(item.org, UnknownOrganization),
                 url |-> <<RW>> \o (IF item.href \in {None, NoLink} THEN <<>> ELSE item.href),
                 date_posted |-> date_posted,
                 source |-> "reliefweb",
                 search_term |-> search_term,
                 is_recent |-> is_recent_job(date_posted, now)] >>

\* An HTML fallback that keeps every element of the page.
scrape_reliefweb_html_uncapped(resp, search_term, max_jobs, now) ==
    IF resp.status = "timeout" THEN <<>>
    ELSE LET elements == resp.items
         IN  Flatten([k \in 1..Len(elements) |-> reliefweb_html_item(elements[k], search_term, now)])

\* No raise_for_status here: the body of a non-2xx answer is parsed like any other.
scrape_reliefweb_html(resp, search_term, max_jobs, now) ==
    IF resp.status = "timeout" THEN <<>>
    ELSE LET elements == Take(resp.items, max_jobs)
         IN  Flatten([k \in 1..Len(elements) |-> reliefweb_html_item(elements[k], search_term, now)])

\* api is the answer of the JSON endpoint; html is the answer of the search
\* page, requested only when the API path raised.
scrape_reliefweb(api, html, search_term, max_jobs, now) ==
    IF api.status = "ok"
    THEN LET elements == Take(api.items, max_jobs)
         IN  Flatten([k \in 1..Len(elements) |-> reliefweb_api_item(elements[k], search_term, now)])
    ELSE scrape_reliefweb_html(html, search_term, max_jobs, now)

-----------------------------------------------------------------------------
(* The two regular expressions scrape_devex searches the title with *)

\* [a-zA-Z\s&]
InOrgClass(c) == c \in UpperCase \cup LowerCase \cup {" ", "&"}

\* The first index >= k that holds no whitespace (Len(s) + 1 if none): \s*
SkipSpaces(s, k) ==
    CHOOSE q \in k..(Len(s) + 1) :
        /\ \A r \in k..(q - 1) : s[r] = " "
        /\ q = Len(s) + 1 \/ s[q] # " "

\* The last index of the longest run of class characters that starts at p + 1
RunEnd(s, p) ==
    CHOOSE q \in p..Len(s) :
        /\ \A r \in (p + 1)..q : InOrgClass(s[r])
        /\ q = Len(s) \/ ~InOrgClass(s[q + 1])

\* str.strip()
Strip(s) ==
    IF \A k \in 1..Len(s) : s[k] = " " THEN <<>>
    ELSE LET a == CHOOSE k \in 1..Len(s) : s[k] # " " /\ \A r \in 1..(k - 1) : s[r] = " "
             b == CHOOSE k \in 1..Len(s) : s[k] # " " /\ \A r \in (k + 1)..Len(s) : s[r] = " "
         IN  SubSeq(s, a, b)

\* r'at\s+([A-Z][a-zA-Z\s&]+)' matches with its 'a' at index k
MatchesAt(s, k) ==
    /\ k + 2 <= Len(s)
    /\ s[k] = "a" /\ s[k + 1] = "t" /\ s[k + 2] = " "
    /\ LET p == SkipSpaces(s, k + 2)
       IN  p + 1 <= Len(s) /\ s[p] \in UpperCase /\ InOrgClass(s[p + 1])

\* r'-\s*([A-Z][a-zA-Z\s&]+)$' matches with its '-' at index k
MatchesDash(s, k) ==
    /\ s[k] = "-"
    /\ LET p == SkipSpaces(s, k + 1)
       IN  p + 1 <= Len(s) /\ s[p] \in UpperCase /\ RunEnd(s, p) = Len(s)

\* The loop over org_patterns: group(1).strip() of the first pattern that
\* matches, at its leftmost match; the default when neither does.
devex_organization(title) ==
    IF \E k \in 1..Len(title) : MatchesAt(title, k)
    THEN LET k == CHOOSE k \in 1..Len(title) :
                    MatchesAt(title, k) /\ \A r \in 1..(k - 1) : ~MatchesAt(title, r)
             p == SkipSpaces(title, k + 2)
         IN  Strip(SubSeq(title, p, RunEnd(title, p)))
    ELSE IF \E k \in 1..Len(title) : MatchesDash(title, k)
    THEN LET k == CHOOSE k \in 1..Len(title) :
                    MatchesDash(title, k) /\ \A r \in 1..(k - 1) : ~MatchesDash(title, r)
             p == SkipSpaces(title, k + 1)
         IN  Strip(SubSeq(title, p, Len(title)))
    ELSE DevelopmentOrganization

\* scrape_devex with the source copied from the ReliefWeb adapter.
devex_item_copied_source(item, search_term, now) ==
    IF item.title = None THEN <<>>
    ELSE LET href == IF item.href \in {None, NoLink} THEN <<>> ELSE item.href
             url == IF href # <<>> /\ ~StartsWithHttp(href) THEN <<DX>> \o href ELSE href
         IN  << [title |-> item.title,
                 organization |-> devex_organization(item.title),
                 url |-> url,
                 date_posted |-> Recent,
                 source |-> "reliefweb",
                 search_term |-> search_term,
                 is_recent |-> TRUE] >>

\* One pass of the loop body of scrape_devex. is_recent is set to True
\* whatever date_posted ('Recent') says.
devex_item(item, search_term, now) ==
    IF item.title = None THEN <<>>
    ELSE LET href == IF item.href \in {None, NoLink} THEN <<>> ELSE item.href
             url == IF href # <<>> /\ ~StartsWithHttp(href) THEN <<DX>> \o href ELSE href
         IN  << [title |-> item.title,
                 organization |-> devex_organization(item.title),
                 url |-> url,
                 date_posted |-> Recent,
                 source |-> "devex",
                 search_term |-> search_term,
                 is_recent |-> TRUE] >>

\* The elements scrape_devex loops over: the job cards, or the articles when
\* the page holds no job card; each list cut to max_jobs.
devex_job_elements(resp, max_jobs) ==
    IF Take(resp.items, max_jobs) # <<>>
    THEN Take(resp.items, max_jobs)
    ELSE Take(resp.articles, max_jobs)

scrape_devex(resp, search_term, max_jobs, now) ==
    IF resp.status = "timeout" THEN <<>>
    ELSE LET elements == devex_job_elements(resp, max_jobs)
         IN  Flatten([k \in 1..Len(elements) |-> devex_item(elements[k], search_term, now)])

-----------------------------------------------------------------------------
(* EnhancedJobScraper (branch.py): the Selenium adapters *)

\* extract_reliefweb_job_data and the loop body of scrape_reliefweb: None
\* (nothing appended) when the title link is not found.
selenium_reliefweb_item(item, search_term, now) ==
    IF item.title = None THEN <<>>
    ELSE LET date_posted == OrDefault(item.date, Unknown)
         IN  << [title |-> item.title,
                 organization |-> OrDefault(item.org, UnknownOrganization),
                 url |-> IF item.href = NoLink THEN None ELSE item.href,
                 date_posted |-> date_posted,
                 source |-> "reliefweb",
                 search_term |-> search_term,
                 is_recent |-> is_recent_job(date_posted, now)] >>

\* driver.get or the wait for an article raised: the page gave nothing.
selenium_scrape_reliefweb(resp, search_term, max_jobs, now) ==
    IF resp.status = "timeout" THEN <<>>
    ELSE LET elements == Take(resp.items, max_jobs)
         IN  Flatten([k \in 1..Len(elements) |-> selenium_reliefweb_item(elements[k], search_term, now)])

\* scrape_unjobs setting is_recent the way scrape_devex does.
unjobs_item_always_recent(item, search_term, now) ==
    IF item.title = None \/ item.href = NoLink THEN <<>>
    ELSE << [title |-> item.title,
             organization |-> OrDefault(item.org, UNAgency),
             url |-> item.href,
             date_posted |-> Recent,
             source |-> "unjobs",
             search_term |-> search_term,
             is_recent |-> TRUE] >>

\* extract_unjobs_job_data and the loop body of scrape_unjobs: None when the
\* heading or the link is not found.
unjobs_item(item, search_term, now) ==
    IF item.title = None \/ item.href = NoLink THEN <<>>
    ELSE << [title |-> item.title,
             organization |-> OrDefault(item.org, UNAgency),
             url |-> item.href,
             date_posted |-> Recent,
             source |-> "unjobs",
             search_term |-> search_term,
             is_recent |-> is_recent_job(Recent, now)] >>

scrape_unjobs(resp, search_term, max_jobs, now) ==
    IF resp.status = "timeout" THEN <<>>
    ELSE LET elements == Take(resp.items, max_jobs)
         IN  Flatten([k \in 1..Len(elements) |-> unjobs_item(elements[k], search_term, now)])

-----------------------------------------------------------------------------
(* filter_public_health_jobs.  relevance_score is kept in hundredths: the  *)
(* value round(x, 2) * 100, an integer.                                    *)

\* fn.py: 23 entries, 'health' among them twice
public_health_keywords_fn ==
    << <<"p","u","b","l","i","c"," ","h","e","a","l","t","h">>,
       <<"m","o","n","i","t","o","r","i","n","g">>,
       <<"e","v","a","l","u","a","t","i","o","n">>,
       <<"m","&","e">>,
       <<"d","a","t","a">>,
       <<"h","e","a","l","t","h">>,
       <<"s","t","r","a","t","e","g","i","c"," ","i","n","f","o","r","m","a","t","i","o","n">>,
       <<"c","o","m","m","c","a","r","e">>,
       <<"d","h","i","s","2">>,
       <<"s","u","r","v","e","y">>,
       <<"r","e","s","e","a","r","c","h">>,
       <<"i","m","p","a","c","t"," ","a","s","s","e","s","s","m","e","n","t">>,
       <<"h","e","a","l","t","h"," ","p","r","o","g","r","a","m">>,
       <<"g","l","o","b","a","l"," ","h","e","a","l","t","h">>,
       <<"h","e","a","l","t","h"," ","s","y","s","t","e","m","s">>,
       <<"e","p","i","d","e","m","i","o","l","o","g","y">>,
       <<"h","e","a","l","t","h">>,
       <<"m","a","t","e","r","n","a","l">>,
       <<"c","h","i","l","d"," ","h","e","a","l","t","h">>,
       <<"h","i","v">>,
       <<"t","b">>,
       <<"m","a","l","a","r","i","a">>,
       <<"n","u","t","r","i","t","i","o","n">> >>

\* branch.py: the first 16 of them
public_health_keywords_branch == SubSeq(public_health_keywords_fn, 1, 16)

\* The threshold of the `if`, in hundredths: 0.2 in fn.py, 0.3 in branch.py
ThresholdFn == 20

ThresholdBranch == 30

\* sum(1 for keyword in keywords if keyword in job_text): one per list entry
Matches(keywords, job_text) ==
    Cardinality({k \in 1..Len(keywords) : IsSubstring(keywords[k], job_text)})

\* The score with the division by len(public_health_keywords) left out.
Round2_no_division(k, V) == k * 100

\* round(k / V, 2) in hundredths; a tie goes to the even hundredth, as
\* Python rounds a float that is exactly halfway (2/16 = 0.125 -> 0.12).
Round2(k, V) ==
    LET q == (k * 100) \div V
        r == (k * 100) % V
    IN  IF 2 * r < V THEN q
        ELSE IF 2 * r > V THEN q + 1
        ELSE IF q % 2 = 0 THEN q ELSE q + 1

\* The body of the loop: the job with relevance_score and is_public_health
\* set from the unrounded quotient matches / len(keywords).
ScoreJob(job, matches, V, threshold) ==
    [title |-> job.title,
     organization |-> job.organization,
     url |-> job.url,
     date_posted |-> job.date_posted,
     source |-> job.source,
     search_term |-> job.search_term,
     is_recent |-> job.is_recent,
     relevance_score |-> Round2(matches, V),
     is_public_health |-> matches * 100 >= threshold * V]

\* fn.py scores the title and the organization, branch.py the title and a
\* description no adapter sets
job_text(variant, job) ==
    IF variant = "fn"
    THEN Lower(job.title \o <<" ">> \o job.organization)
    ELSE Lower(job.title \o <<" ">>)

keywords_of(variant) ==
    IF variant = "fn" THEN public_health_keywords_fn ELSE public_health_keywords_branch

\* The two thresholds exchanged between the files.
threshold_of_swapped(variant) == IF variant = "fn" THEN ThresholdBranch ELSE ThresholdFn

threshold_of(variant) == IF variant = "fn" THEN ThresholdFn ELSE ThresholdBranch

-----------------------------------------------------------------------------
(* Inputs of the classifier *)

\* Evaluation dates: mid-month, first of the year, the day after a leap day.
Nows ==
    { [d |-> 5, m |-> 1, y |-> 2025],
      [d |-> 1, m |-> 1, y |-> 2025],
      [d |-> 1, m |-> 3, y |-> 2024],
      [d |-> 15, m |-> 5, y |-> 2025] }

FixedDateTexts ==
    { None,
      <<>>,
      <<"2"," ","h","o","u","r","s"," ","a","g","o">>,
      <<"1"," ","H","o","u","r"," ","A","g","o">>,
      <<"T","O","D","A","Y">>,
      <<"P","o","s","t","e","d"," ","t","o","d","a","y">>,
      <<"J","u","s","t"," ","n","o","w">>,
      <<"1","1"," ","d","a","y"," ","a","g","o">>,
      <<"Y","e","s","t","e","r","d","a","y">>,
      <<"t","h","r","e","e"," ","w","e","e","k","s"," ","a","g","o">>,
      <<"3"," ","d","a","y","s"," ","a","g","o">>,
      <<"h","o","u","r","s">>,
      <<"U","n","k","n","o","w","n">>,
      <<"R","e","c","e","n","t">>,
      <<"2","0","2","5","-","0","1","-","0","5","T","1","0",":","0","0",":","0","0","+","0","0",":","0","0">> }

\* The dates themselves, as a site would print them, in both letter cases.
DateTexts ==
    FixedDateTexts
    \cup {strftime(n) : n \in Nows}
    \cup {Lower(strftime(n)) : n \in Nows}
    \cup {strftime(PrevDay(n)) : n \in Nows}
    \cup {<<"P","o","s","t","e","d"," ">> \o strftime(n) : n \in Nows}

-----------------------------------------------------------------------------
(* Specification of the classifier alone: one call on drawn inputs *)

NoCall == [op |-> "none"]

NoRet == [done |-> FALSE, value |-> FALSE]

\* The run variables of a program that has not been started.
Idle ==
    /\ program = "fn"
    /\ search_terms = <<>>
    /\ sites = <<>>
    /\ max_jobs_per_search = 0
    /\ clock = [d |-> 1, m |-> 1, y |-> 2025]
    /\ pc = "idle"
    /\ i = 0
    /\ j = 0
    /\ term_jobs = <<>>
    /\ all_jobs = <<>>
    /\ unique_jobs = <<>>
    /\ driver = "none"
    /\ close_calls = 0
    /\ progress = [num |-> 0, den |-> 1]
    /\ status = [kind |-> "none", term |-> "", n |-> 0]
    /\ errors = <<>>
    /\ log = <<>>
    /\ failed = {}

InitRecent ==
    /\ Idle
    /\ fcall \in {[op |-> "is_recent_job", date_text |-> t, now |-> n] :
                    t \in DateTexts, n \in Nows}
    /\ fret = NoRet

CallIsRecent ==
    /\ fcall.op = "is_recent_job"
    /\ ~fret.done
    /\ fret' = [done |-> TRUE, value |-> is_recent_job(fcall.date_text, fcall.now)]
    /\ UNCHANGED <<fcall, config, run>>

NextRecent == CallIsRecent

SpecRecent == InitRecent /\ [][NextRecent]_vars

-----------------------------------------------------------------------------
(* Inputs of a run: the sidebar and what the sites answer *)

TitleRelevant ==
    <<"P","u","b","l","i","c"," ","H","e","a","l","t","h"," ","M","o","n","i","t","o","r","i","n","g"," ","E","v","a","l","u","a","t","i","o","n"," ","D","a","t","a">>

\* Five list entries match in fn.py ('health' twice), four in branch.py
TitleFnOnly ==
    <<"H","e","a","l","t","h"," ","D","a","t","a"," ","S","u","r","v","e","y"," ","R","e","s","e","a","r","c","h">>

TitleIrrelevant == <<"D","r","i","v","e","r">>

TitleWithOrg ==
    <<"M","&","E"," ","O","f","f","i","c","e","r"," ","a","t"," ","W","o","r","l","d"," ","H","e","a","l","t","h">>

TitleWithDash ==
    <<"D","a","t","a"," ","C","l","e","r","k"," ","-"," ","U","N","&","C","o">>

HoursAgo == <<"2"," ","h","o","u","r","s"," ","a","g","o">>

\* A complete entry with a site-relative link
ItemA == [id |-> <<"1">>, title |-> TitleRelevant, href |-> <<"/job/", "1">>,
          date |-> HoursAgo, org |-> None]

\* A complete entry with an absolute link, dated the 5th of January 2025
ItemB == [id |-> <<"2">>, title |-> TitleRelevant, href |-> <<RW, "/job/", "2">>,
          date |-> strftime([d |-> 5, m |-> 1, y |-> 2025]), org |-> None]

\* The job of ItemA again, under another title and undated
ItemC == [id |-> <<"1">>, title |-> TitleFnOnly, href |-> <<"/job/", "1">>,
          date |-> None, org |-> None]

\* An entry without title, from an organisation whose name matches the vocabulary
ItemD == [id |-> <<"3">>, title |-> None, href |-> <<"/job/", "3">>,
          date |-> None, org |-> TitleRelevant]

\* An entry without id whose link has no href
ItemE == [id |-> None, title |-> TitleRelevant, href |-> None,
          date |-> HoursAgo, org |-> None]

\* An entry that holds no link at all
ItemF == [id |-> <<"4">>, title |-> TitleWithOrg, href |-> NoLink,
          date |-> None, org |-> None]

ItemG == [id |-> <<"5">>, title |-> TitleWithDash, href |-> <<DX, "/jobs/", "5">>,
          date |-> None, org |-> None]

ItemH == [id |-> <<"6">>, title |-> TitleIrrelevant, href |-> <<"/job/", "6">>,
          date |-> None, org |-> None]

\* Longest answer in a run: enough relevant jobs to exceed the slider's minimum
BulkSize == 6

BulkItems ==
    [k \in 1..BulkSize |->
        [id |-> <<Digit[k + 1]>>, title |-> TitleRelevant, href |-> <<"/job/", Digit[k + 1]>>,
         date |-> None, org |-> None]]

Response(st, items, articles) ==
    [status |-> st, items |-> items, articles |-> articles]

\* Stands for the answer of a request that is not made
NoResponse == Response("none", <<>>, <<>>)

\* Answers of the JSON endpoint. The body of a failed answer is never read.
ApiResponses ==
    { Response("ok", <<>>, <<>>),
      Response("ok", <<ItemA, ItemB, ItemD, ItemE, ItemH>>, <<>>),
      Response("ok", BulkItems, <<>>),
      Response("http_error", <<>>, <<>>),
      Response("timeout", <<>>, <<>>) }

\* Answers of a search page: the job elements found in it, and for Devex the
\* articles. An error status may come with a page that still lists jobs.
PageResponses ==
    { Response("ok", <<>>, <<>>),
      Response("ok", <<>>, <<ItemF, ItemB, ItemG>>),
      Response("ok", <<ItemC, ItemD, ItemE, ItemA, ItemH>>, <<ItemB>>),
      Response("http_error", <<ItemA>>, <<>>),
      Response("timeout", <<>>, <<>>) }

\* default_terms of the sidebar
default_terms ==
    <<"monitoring and evaluation", "M&E officer", "strategic information",
      "public health data", "health information systems">>

\* Number of sidebar terms a run may tick
MaxTerms == 2

\* Largest slider value of a run
MaxSliderValue == 5

\* min_value of the slider
SliderMin == 5

\* max_jobs defaults of the adapters
ReliefwebMaxJobs == 20

DevexMaxJobs == 15

UnjobsMaxJobs == 15

\* time.sleep arguments: between sites and between terms (fn.py, branch.py),
\* and the page-load wait of scrape_unjobs
SiteDelayFn == 1

TermDelayFn == 1

SiteDelayBranch == 2

TermDelayBranch == 2

UnjobsLoadWait == 3

Programs == {"fn", "branch", "JOB"}

\* The site checkboxes, in the order the sidebar appends them
SiteList(prog) ==
    IF prog = "fn" THEN <<"reliefweb", "devex">> ELSE <<"reliefweb", "unjobs">>

\* The entries of s at the indices in S, in order: the ticked checkboxes
Ticked(s, S) ==
    LET F[k \in 0..Len(s)] ==
            IF k = 0 THEN <<>>
            ELSE IF k \in S THEN Append(F[k - 1], s[k]) ELSE F[k - 1]
    IN  F[Len(s)]

Selections(s) == {Ticked(s, S) : S \in SUBSET (1..Len(s))}

RunNows == {[d |-> 5, m |-> 1, y |-> 2025]}

\* Every raw item a response of the model holds
RawItems ==
    {ItemA, ItemB, ItemC, ItemD, ItemE, ItemF, ItemG, ItemH}
    \cup {BulkItems[k] : k \in 1..BulkSize}

Range(s) == {s[k] : k \in 1..Len(s)}

\* Titles and organisations of the jobs the filter is called on by itself:
\* from no list entry matched to eight, on both sides of either threshold
TitleThreeInBranch ==
    <<"D","a","t","a"," ","S","u","r","v","e","y"," ","R","e","s","e","a","r","c","h"," ","M","a","l","a","r","i","a">>

TitleSixInBranch ==
    <<"P","u","b","l","i","c"," ","H","e","a","l","t","h"," ","M","o","n","i","t","o","r","i","n","g"," ","E","v","a","l","u","a","t","i","o","n"," ","D","a","t","a"," ","S","u","r","v","e","y">>

GlobalHealthCorps ==
    <<"G","l","o","b","a","l"," ","H","e","a","l","t","h"," ","C","o","r","p","s">>

FilterTitles ==
    { <<>>, TitleIrrelevant, TitleWithDash, TitleWithOrg, TitleFnOnly, TitleRelevant,
      TitleThreeInBranch, TitleSixInBranch }

\* The jobs of a list handed to filter_public_health_jobs
FilterJobs ==
    { [title |-> t,
       organization |-> o,
       url |-> <<RW, "/job/", "1">>,
       date_posted |-> Unknown,
       source |-> "reliefweb",
       search_term |-> default_terms[1],
       is_recent |-> FALSE] : t \in FilterTitles, o \in {UnknownOrganization, GlobalHealthCorps} }

\* Every posting an adapter can make of a raw item, the search term aside
PostingsOf(item) ==
    UNION { Range(reliefweb_api_item(item, "", n))
            \cup Range(reliefweb_html_item(item, "", n))
            \cup Range(devex_item(item, "", n))
            \cup Range(selenium_reliefweb_item(item, "", n))
            \cup Range(unjobs_item(item, "", n)) : n \in RunNows }

\* Matches, computed once for each text a posting of the model can be scored on
MatchTable ==
    [variant \in {"fn", "branch"} |->
        [text \in {job_text(variant, p) :
                    p \in FilterJobs \cup UNION {PostingsOf(item) : item \in RawItems}}
            |-> Matches(keywords_of(variant), text)]]

\* Every job of the list as the loop leaves it (the dicts are changed in place)
scored_jobs(variant, jobs) ==
    LET v == IF variant = "fn" THEN "fn" ELSE "branch"
    IN  [k \in 1..Len(jobs) |->
            ScoreJob(jobs[k], MatchTable[v][job_text(v, jobs[k])],
                     Len(keywords_of(v)), threshold_of(v))]

IsPublicHealth(job) == job.is_public_health

\* The filter with the append outside the `if`: every scored job is returned.
filter_public_health_jobs_keep_all(variant, jobs) == scored_jobs(variant, jobs)

\* filtered_jobs: the jobs the `if` appended, in order
filter_public_health_jobs(variant, jobs) ==
    SelectSeq(scored_jobs(variant, jobs), IsPublicHealth)

-----------------------------------------------------------------------------
(* Specification of the filter alone: one call on a drawn list of jobs *)

\* Longest list of jobs of a drawn call
MaxFilterJobs == 2

InitFilter ==
    /\ Idle
    /\ fcall \in {[op |-> "filter_public_health_jobs", variant |-> v, jobs |-> l] :
                    v \in Programs,
                    l \in UNION {[1..n -> FilterJobs] : n \in 0..MaxFilterJobs}}
    /\ fret = NoRet

\* The call returns filtered_jobs; value.jobs is the caller's list after the
\* call, every dict of it with relevance_score and is_public_health set.
CallFilter ==
    /\ fcall.op = "filter_public_health_jobs"
    /\ ~fret.done
    /\ fret' = [done |-> TRUE,
                value |-> [jobs |-> scored_jobs(fcall.variant, fcall.jobs),
                           filtered_jobs |-> filter_public_health_jobs(fcall.variant,
                                                                       fcall.jobs)]]
    /\ UNCHANGED <<fcall, config, run>>

NextFilter == CallFilter

SpecFilter == InitFilter /\ [][NextFilter]_vars

-----------------------------------------------------------------------------
(* Specification of one adapter call on drawn inputs: any limit, any       *)
(* answer up to MaxRaw entries                                             *)

\* Largest max_jobs of a drawn call
MaxLimit == 2

\* Longest list of entries in a drawn answer
MaxRaw == 3

AdapterItems == {ItemA, ItemB, ItemD, ItemE, ItemF}

ItemLists == UNION {[1..n -> AdapterItems] : n \in 0..MaxRaw}

AdapterNows == {[d |-> 5, m |-> 1, y |-> 2025], [d |-> 15, m |-> 5, y |-> 2025]}

\* Answers of a page: job elements or, when there are none, articles
DrawnPages ==
    {Response(st, l, <<>>) : st \in {"ok", "http_error"}, l \in ItemLists}
    \cup {Response(st, <<>>, l) : st \in {"ok", "http_error"}, l \in ItemLists}
    \cup {Response("timeout", <<>>, <<>>)}

\* The requests of one call: the answer to the first, and to the second if
\* one is made (the search page after the API path of fn.py raised)
DrawnExchanges ==
    {[op |-> "scrape_reliefweb", first |-> Response("ok", l, <<>>), second |-> NoResponse] :
        l \in ItemLists}
    \cup {[op |-> "scrape_reliefweb", first |-> Response(st, <<>>, <<>>), second |-> page] :
        st \in {"http_error", "timeout"}, page \in {r \in DrawnPages : r.articles = <<>>}}
    \cup {[op |-> "scrape_devex", first |-> page, second |-> NoResponse] : page \in DrawnPages}
    \cup {[op |-> o, first |-> page, second |-> NoResponse] :
        o \in {"selenium_scrape_reliefweb", "scrape_unjobs"},
        page \in {r \in DrawnPages : r.articles = <<>>}}

InitAdapter ==
    /\ Idle
    /\ fcall \in {[op |-> x.op, first |-> x.first, second |-> x.second,
                   search_term |-> default_terms[1], max_jobs |-> n, now |-> t] :
                    x \in DrawnExchanges, n \in 1..MaxLimit, t \in AdapterNows}
    /\ fret = NoRet

Return(value) ==
    /\ ~fret.done
    /\ fret' = [done |-> TRUE, value |-> value]
    /\ UNCHANGED <<fcall, config, run>>

CallScrapeReliefweb ==
    /\ fcall.op = "scrape_reliefweb"
    /\ Return(scrape_reliefweb(fcall.first, fcall.second, fcall.search_term,
                               fcall.max_jobs, fcall.now))

CallScrapeDevex ==
    /\ fcall.op = "scrape_devex"
    /\ Return(scrape_devex(fcall.first, fcall.search_term, fcall.max_jobs, fcall.now))

CallSeleniumScrapeReliefweb ==
    /\ fcall.op = "selenium_scrape_reliefweb"
    /\ Return(selenium_scrape_reliefweb(fcall.first, fcall.search_term, fcall.max_jobs,
                                        fcall.now))

CallScrapeUnjobs ==
    /\ fcall.op = "scrape_unjobs"
    /\ Return(scrape_unjobs(fcall.first, fcall.search_term, fcall.max_jobs, fcall.now))

NextAdapter ==
    \/ CallScrapeReliefweb
    \/ CallScrapeDevex
    \/ CallSeleniumScrapeReliefweb
    \/ CallScrapeUnjobs

SpecAdapter == InitAdapter /\ [][NextAdapter]_vars

-----------------------------------------------------------------------------
(* The history variable *)

RequestEvent(term, site, path) ==
    [ev |-> "request", term |-> term, site |-> site, path |-> path, secs |-> 0]

SleepEvent(secs) ==
    [ev |-> "sleep", term |-> 0, site |-> "", path |-> "", secs |-> secs]

SiteDelay == IF program = "fn" THEN SiteDelayFn ELSE SiteDelayBranch

TermDelay == IF program = "fn" THEN TermDelayFn ELSE TermDelayBranch

-----------------------------------------------------------------------------
(* The run: main() of fn.py from the button on, run_scraper_with_progress  *)
(* of branch.py and JOB.py                                                 *)

Init ==
    /\ program \in Programs
    /\ search_terms \in Selections(Take(default_terms, MaxTerms))
    /\ sites \in Selections(SiteList(program))
    /\ max_jobs_per_search \in SliderMin..MaxSliderValue
    /\ clock \in RunNows
    /\ pc = "clicked"
    /\ i = 0
    /\ j = 0
    /\ term_jobs = <<>>
    /\ all_jobs = <<>>
    /\ unique_jobs = <<>>
    /\ driver = "none"
    /\ close_calls = 0
    /\ progress = [num |-> 0, den |-> 1]
    /\ status = [kind |-> "none", term |-> "", n |-> 0]
    /\ errors = <<>>
    /\ log = <<>>
    /\ failed = {}
    /\ fcall = NoCall
    /\ fret = NoRet

\* `if not search_terms`: st.error and return
RejectNoTerms ==
    /\ pc = "clicked"
    /\ search_terms = <<>>
    /\ errors' = Append(errors, "Please select at least one search term.")
    /\ pc' = "rejected"
    /\ UNCHANGED <<config, i, j, term_jobs, all_jobs, unique_jobs, driver, close_calls, progress,
                   status, log, failed, fcall, fret>>

\* The check of the sites placed after the construction of the scraper.
RejectNoSites_after_setup ==
    /\ pc = "clicked"
    /\ search_terms # <<>>
    /\ sites = <<>>
    /\ errors' = Append(errors, "Please select at least one website to scrape.")
    /\ driver' = IF program = "fn" THEN driver ELSE "open"
    /\ pc' = "rejected"
    /\ UNCHANGED <<config, i, j, term_jobs, all_jobs, unique_jobs, close_calls, progress,
                   status, log, failed, fcall, fret>>

\* `if not sites`: st.error and return
RejectNoSites ==
    /\ pc = "clicked"
    /\ search_terms # <<>>
    /\ sites = <<>>
    /\ errors' = Append(errors, "Please select at least one website to scrape.")
    /\ pc' = "rejected"
    /\ UNCHANGED <<config, i, j, term_jobs, all_jobs, unique_jobs, driver, close_calls, progress,
                   status, log, failed, fcall, fret>>

\* What follows the construction of the scraper: st.progress(0), st.empty(),
\* all_jobs = [] and the first turn of the loop.
EnterLoop ==
    /\ progress' = [num |-> 0, den |-> 1]
    /\ status' = [kind |-> "none", term |-> "", n |-> 0]
    /\ all_jobs' = <<>>
    /\ i' = 1
    /\ pc' = "term"
    /\ UNCHANGED <<config, j, term_jobs, unique_jobs, close_calls, errors, log, failed,
                   fcall, fret>>

\* fn.py: SimpleJobScraper() opens a requests session and cannot fail
StartSimple ==
    /\ pc = "clicked"
    /\ search_terms # <<>>
    /\ sites # <<>>
    /\ program = "fn"
    /\ UNCHANGED driver
    /\ EnterLoop

\* branch.py, JOB.py: EnhancedJobScraper(headless=True) starts Chrome
StartSelenium ==
    /\ pc = "clicked"
    /\ search_terms # <<>>
    /\ sites # <<>>
    /\ program \in {"branch", "JOB"}
    /\ driver' = "open"
    /\ EnterLoop

\* webdriver.Chrome raises in setup_driver: the constructor is called outside
\* every try, so the exception leaves run_scraper_with_progress.
DriverSetupFails ==
    /\ pc = "clicked"
    /\ search_terms # <<>>
    /\ sites # <<>>
    /\ program \in {"branch", "JOB"}
    /\ pc' = "aborted"
    /\ UNCHANGED <<config, i, j, term_jobs, all_jobs, unique_jobs, driver, close_calls, progress,
                   status, errors, log, failed, fcall, fret>>

\* Top of the loop over the terms: the status line, then
\* scrape_development_sites starts with an empty list.
BeginTerm ==
    /\ pc = "term"
    /\ status' = [kind |-> "searching", term |-> search_terms[i], n |-> 0]
    /\ term_jobs' = <<>>
    /\ j' = 1
    /\ pc' = "site"
    /\ UNCHANGED <<config, i, all_jobs, unique_jobs, driver, close_calls, progress, errors, log,
                   failed, fcall, fret>>

\* The loop over the sites stands at `site`
AtSite(site) == pc = "site" /\ j <= Len(sites) /\ sites[j] = site

\* A turn that sleeps only when the adapter found jobs.
SiteTurn_sleep_if_found(found, events, raised) ==
    /\ term_jobs' = term_jobs \o found
    /\ log' = log \o events \o (IF found = <<>> THEN <<>> ELSE <<SleepEvent(SiteDelay)>>)
    /\ failed' = IF raised THEN failed \cup {<<i, sites[j]>>} ELSE failed
    /\ j' = j + 1
    /\ UNCHANGED <<config, pc, i, all_jobs, unique_jobs, driver, close_calls, progress, status, errors,
                   fcall, fret>>

\* A turn in which an adapter's exception is not caught before the loop over
\* the terms: the jobs of the term are lost and its other sites are skipped.
SiteTurn_escape(found, events, raised) ==
    /\ term_jobs' = IF raised THEN <<>> ELSE term_jobs \o found
    /\ log' = log \o events \o <<SleepEvent(SiteDelay)>>
    /\ failed' = IF raised THEN failed \cup {<<i, sites[j]>>} ELSE failed
    /\ j' = IF raised THEN Len(sites) + 1 ELSE j + 1
    /\ UNCHANGED <<config, pc, i, all_jobs, unique_jobs, driver, close_calls, progress, status, errors,
                   fcall, fret>>

\* One turn of the loop over the sites, once the adapter has returned:
\* all_jobs.extend(jobs), time.sleep, next site.  Every adapter catches
\* Exception itself, so the handler of this loop is never entered.
\* raised tells whether the adapter went through one of its except clauses.
SiteTurn(found, events, raised) ==
    /\ term_jobs' = term_jobs \o found
    /\ log' = log \o events \o <<SleepEvent(SiteDelay)>>
    /\ failed' = IF raised THEN failed \cup {<<i, sites[j]>>} ELSE failed
    /\ j' = j + 1
    /\ UNCHANGED <<config, pc, i, all_jobs, unique_jobs, driver, close_calls, progress, status, errors,
                   fcall, fret>>

\* The calls of scrape_development_sites, which pass no max_jobs: what each
\* adapter returns with its default limit, for every answer, term and date of
\* a run. The tables are computed once and read by the actions below.
RunTerms == Range(Take(default_terms, MaxTerms))

ReliefwebResults ==
    [api \in ApiResponses |-> [html \in PageResponses \cup {NoResponse} |->
        [term \in RunTerms |-> [now \in RunNows |->
            scrape_reliefweb(api, html, term, ReliefwebMaxJobs, now)]]]]

DevexResults ==
    [page \in PageResponses |-> [term \in RunTerms |-> [now \in RunNows |->
        scrape_devex(page, term, DevexMaxJobs, now)]]]

SeleniumReliefwebResults ==
    [page \in PageResponses |-> [term \in RunTerms |-> [now \in RunNows |->
        selenium_scrape_reliefweb(page, term, ReliefwebMaxJobs, now)]]]

UnjobsResults ==
    [page \in PageResponses |-> [term \in RunTerms |-> [now \in RunNows |->
        scrape_unjobs(page, term, UnjobsMaxJobs, now)]]]

\* scrape_reliefweb going on to the search page when the API lists no job.
ScrapeReliefwebApi_html_when_empty ==
    /\ program = "fn"
    /\ AtSite("reliefweb")
    /\ \E api \in {r \in ApiResponses : r.status = "ok"}, html \in PageResponses :
          IF api.items = <<>>
          THEN SiteTurn(scrape_reliefweb_html(html, search_terms[i], ReliefwebMaxJobs, clock),
                        <<RequestEvent(i, "reliefweb", "api"),
                          RequestEvent(i, "reliefweb", "html")>>,
                        FALSE)
          ELSE SiteTurn(ReliefwebResults[api][NoResponse][search_terms[i]][clock],
                        <<RequestEvent(i, "reliefweb", "api")>>,
                        FALSE)

\* fn.py, reliefweb: the API answers
ScrapeReliefwebApi ==
    /\ program = "fn"
    /\ AtSite("reliefweb")
    /\ \E api \in {r \in ApiResponses : r.status = "ok"} :
          SiteTurn(ReliefwebResults[api][NoResponse][search_terms[i]][clock],
                   <<RequestEvent(i, "reliefweb", "api")>>,
                   FALSE)

\* fn.py, reliefweb: the API path raises and the search page is requested
ScrapeReliefwebFallback ==
    /\ program = "fn"
    /\ AtSite("reliefweb")
    /\ \E api \in {r \in ApiResponses : r.status # "ok"}, html \in PageResponses :
          SiteTurn(ReliefwebResults[api][html][search_terms[i]][clock],
                   <<RequestEvent(i, "reliefweb", "api"), RequestEvent(i, "reliefweb", "html")>>,
                   TRUE)

\* fn.py, devex
ScrapeDevex ==
    /\ program = "fn"
    /\ AtSite("devex")
    /\ \E page \in PageResponses :
          SiteTurn(DevexResults[page][search_terms[i]][clock],
                   <<RequestEvent(i, "devex", "page")>>,
                   page.status = "timeout")

\* branch.py, JOB.py, reliefweb
ScrapeReliefwebSelenium ==
    /\ program \in {"branch", "JOB"}
    /\ AtSite("reliefweb")
    /\ \E page \in PageResponses :
          SiteTurn(SeleniumReliefwebResults[page][search_terms[i]][clock],
                   <<RequestEvent(i, "reliefweb", "page")>>,
                   page.status = "timeout")

\* branch.py, JOB.py, unjobs: time.sleep(3) follows a driver.get that returned
ScrapeUnjobs ==
    /\ program \in {"branch", "JOB"}
    /\ AtSite("unjobs")
    /\ \E page \in PageResponses :
          SiteTurn(UnjobsResults[page][search_terms[i]][clock],
                   <<RequestEvent(i, "unjobs", "page")>>
                   \o (IF page.status = "timeout" THEN <<>> ELSE <<SleepEvent(UnjobsLoadWait)>>),
                   page.status = "timeout")

\* scrape_development_sites returns; the rest of the turn of the loop over
\* the terms: filter, extend, status line, and in the finally clause the
\* progress bar and time.sleep.
EndTerm ==
    /\ pc = "site"
    /\ j > Len(sites)
    /\ LET filtered_jobs == filter_public_health_jobs(program, term_jobs)
       IN  /\ all_jobs' = all_jobs \o filtered_jobs
           /\ status' = [kind |-> "found", term |-> search_terms[i], n |-> Len(filtered_jobs)]
    /\ progress' = [num |-> i, den |-> Len(search_terms)]
    /\ log' = Append(log, SleepEvent(TermDelay))
    /\ term_jobs' = <<>>
    /\ IF i < Len(search_terms)
       THEN i' = i + 1 /\ pc' = "term"
       ELSE i' = i /\ pc' = "dedup"
    /\ UNCHANGED <<config, j, unique_jobs, driver, close_calls, errors, failed, fcall, fret>>

\* The loop without its `if`.
RemoveDuplicates_keep_all(list) == list

\* A loop that overwrites the job kept for a url with the later one.
RemoveDuplicates_last_wins(list) ==
    LET F[k \in 0..Len(list)] ==
            IF k = 0 THEN [unique_jobs |-> <<>>, seen_urls |-> {}]
            ELSE LET before == F[k - 1]
                 IN  IF list[k].url \notin before.seen_urls
                     THEN [unique_jobs |-> Append(before.unique_jobs, list[k]),
                           seen_urls |-> before.seen_urls \cup {list[k].url}]
                     ELSE [unique_jobs |->
                               [m \in DOMAIN before.unique_jobs |->
                                   IF before.unique_jobs[m].url = list[k].url
                                   THEN list[k] ELSE before.unique_jobs[m]],
                           seen_urls |-> before.seen_urls]
    IN  F[Len(list)].unique_jobs

\* A loop that remembers titles instead of urls.
RemoveDuplicates_by_title(list) ==
    LET F[k \in 0..Len(list)] ==
            IF k = 0 THEN [unique_jobs |-> <<>>, seen_titles |-> {}]
            ELSE LET before == F[k - 1]
                 IN  IF list[k].title \notin before.seen_titles
                     THEN [unique_jobs |-> Append(before.unique_jobs, list[k]),
                           seen_titles |-> before.seen_titles \cup {list[k].title}]
                     ELSE before
    IN  F[Len(list)].unique_jobs

\* The loop "Remove duplicates": unique_jobs and seen_urls after the first
\* k jobs of the list
RemoveDuplicates(list) ==
    LET F[k \in 0..Len(list)] ==
            IF k = 0 THEN [unique_jobs |-> <<>>, seen_urls |-> {}]
            ELSE LET before == F[k - 1]
                 IN  IF list[k].url \notin before.seen_urls
                     THEN [unique_jobs |-> Append(before.unique_jobs, list[k]),
                           seen_urls |-> before.seen_urls \cup {list[k].url}]
                     ELSE before
    IN  F[Len(list)].unique_jobs

\* close(): `if self.driver` quits the browser; the driver object stays in
\* place, so the test holds again on a later call.
close ==
    /\ driver' = IF driver # "none" THEN "closed" ELSE driver
    /\ close_calls' = close_calls + 1

\* The way out of run_scraper_with_progress: the finally clause of branch.py
\* calls scraper.close(); JOB.py and fn.py have no such clause.
LeaveRun ==
    IF program = "branch" THEN close ELSE UNCHANGED <<driver, close_calls>>

\* After the loop: remove duplicates, progress 1.0, the closing status line,
\* the hand-over of unique_jobs; in branch.py the finally clause closes the
\* browser.
Finish ==
    /\ pc = "dedup"
    /\ unique_jobs' = RemoveDuplicates(all_jobs)
    /\ progress' = [num |-> 1, den |-> 1]
    /\ status' = [kind |-> "complete", term |-> "", n |-> Len(unique_jobs')]
    /\ LeaveRun
    /\ pc' = "done"
    /\ UNCHANGED <<config, i, j, term_jobs, all_jobs, errors, log, failed, fcall, fret>>

\* The exception leaves a function without a finally clause: the browser
\* stays open.
RaiseOutsideHandler_no_finally ==
    /\ pc \in {"term", "dedup"}
    /\ pc' = "raised"
    /\ UNCHANGED <<config, i, j, term_jobs, all_jobs, unique_jobs, driver, close_calls,
                   progress, status, errors, log, failed, fcall, fret>>

\* An exception raised in the run outside the per-term try: by
\* status_text.text at the top of the loop, or by the statements after the
\* loop.  Nothing catches it, so the run ends without a collection; on its
\* way out it passes the finally clause of branch.py.
RaiseOutsideHandler ==
    /\ pc \in {"term", "dedup"}
    /\ pc' = "raised"
    /\ LeaveRun
    /\ UNCHANGED <<config, i, j, term_jobs, all_jobs, unique_jobs, progress, status,
                   errors, log, failed, fcall, fret>>

Next ==
    \/ RejectNoTerms
    \/ RejectNoSites
    \/ StartSimple
    \/ StartSelenium
    \/ DriverSetupFails
    \/ BeginTerm
    \/ ScrapeReliefwebApi
    \/ ScrapeReliefwebFallback
    \/ ScrapeDevex
    \/ ScrapeReliefwebSelenium
    \/ ScrapeUnjobs
    \/ EndTerm
    \/ Finish
    \/ RaiseOutsideHandler

Spec == Init /\ [][Next]_vars

-----------------------------------------------------------------------------
(* Properties *)

\* C1: the collection a run hands over never holds two postings with the
\* same url, whatever the terms, the sites and the answers (failures included).
C1_UniqueUrls ==
    \A a, b \in 1..Len(unique_jobs) :
        a # b => unique_jobs[a].url # unique_jobs[b].url

\* A finished run in which a site failed and the accumulated list held a url
\* twice, with more than one posting handed over.
C1_Witness ==
    /\ pc = "done"
    /\ failed # {}
    /\ Len(unique_jobs) >= 2
    /\ \E a, b \in 1..Len(all_jobs) : a < b /\ all_jobs[a].url = all_jobs[b].url

\* C2: for each url the result holds exactly the posting appended first to
\* the accumulated list, and the result keeps the order of that list.
C2_FirstWinsInOrder ==
    pc = "done" =>
        LET first == {k \in 1..Len(all_jobs) :
                        \A m \in 1..(k - 1) : all_jobs[m].url # all_jobs[k].url}
            pos(k) == Cardinality({m \in first : m <= k})
        IN  /\ Len(unique_jobs) = Cardinality(first)
            /\ \A k \in first : unique_jobs[pos(k)] = all_jobs[k]

\* A finished run whose accumulated list held the same url under two search
\* terms: the first copy is handed over, the second is not.
C2_Witness ==
    /\ pc = "done"
    /\ \E a, b \in 1..Len(all_jobs) :
          /\ a < b
          /\ all_jobs[a].url = all_jobs[b].url
          /\ all_jobs[a].search_term # all_jobs[b].search_term
          /\ \E m \in 1..Len(unique_jobs) : unique_jobs[m] = all_jobs[a]
          /\ \A m \in 1..Len(unique_jobs) : unique_jobs[m] # all_jobs[b]

\* C3: a failing adapter call stops nothing: a finished run has requested
\* every (term, site) pair, and no step takes a posting out of the jobs of
\* the term or out of the accumulated list.
C3_FailureIsolated ==
    /\ [](pc = "done" =>
            \A t \in 1..Len(search_terms) : \A k \in 1..Len(sites) :
                \E e \in 1..Len(log) :
                    /\ log[e].ev = "request"
                    /\ log[e].term = t
                    /\ log[e].site = sites[k])
    /\ [][/\ Len(all_jobs) <= Len(all_jobs')
          /\ SubSeq(all_jobs', 1, Len(all_jobs)) = all_jobs
          /\ (pc = "site" /\ pc' = "site") =>
                /\ Len(term_jobs) <= Len(term_jobs')
                /\ SubSeq(term_jobs', 1, Len(term_jobs)) = term_jobs
          /\ (pc = "dedup" /\ pc' = "done") =>
                \A k \in 1..Len(all_jobs) :
                    \E m \in 1..Len(unique_jobs') : unique_jobs'[m].url = all_jobs[k].url]_vars

\* A finished run of two terms and two sites in which the first site failed
\* for the first term, and the result holds postings of the second site for
\* that term and postings found for the second term.
C3_Witness ==
    /\ pc = "done"
    /\ Len(search_terms) = 2
    /\ Len(sites) = 2
    /\ <<1, sites[1]>> \in failed
    /\ \E m \in 1..Len(unique_jobs) :
          unique_jobs[m].search_term = search_terms[1] /\ unique_jobs[m].source = sites[2]
    /\ \E m \in 1..Len(unique_jobs) : unique_jobs[m].search_term = search_terms[2]

\* C4: a run started with a term and a site never ends without a result.
C4_RunNeverAborts == pc # "aborted"

\* C5: an adapter called with max_jobs = N returns at most N postings.
C5_AtMostLimit ==
    fret.done => Len(fret.value) <= fcall.max_jobs

\* The search page, requested after the API failed, lists more job elements
\* than max_jobs and the adapter returns max_jobs postings.
C5_Witness ==
    /\ fret.done
    /\ fcall.op = "scrape_reliefweb"
    /\ fcall.first.status # "ok"
    /\ Len(fcall.second.items) > fcall.max_jobs
    /\ Len(fret.value) = fcall.max_jobs

\* C6: a run with one term, one site and the slider at L hands over at most
\* L postings.
C6_AtMostSlider ==
    (pc = "done" /\ Len(search_terms) = 1 /\ Len(sites) = 1)
        => Len(unique_jobs) <= max_jobs_per_search

\* C7: the postings a site's turn adds carry that site as source, so every
\* posting of the run carries a selected site.
C7_SourceIsAdapter ==
    /\ [](\A p \in Range(term_jobs) \cup Range(all_jobs) \cup Range(unique_jobs) :
            \E k \in 1..Len(sites) : p.source = sites[k])
    /\ [][(pc = "site" /\ j' = j + 1) =>
            \A k \in (Len(term_jobs) + 1)..Len(term_jobs') :
                term_jobs'[k].source = sites[j]]_vars

\* A finished run with the second site alone ticked that hands over postings.
C7_Witness ==
    /\ pc = "done"
    /\ sites = <<SiteList(program)[2]>>
    /\ unique_jobs # <<>>

\* C8: is_recent_job is false for empty or absent text, true for a text that
\* holds one of the six phrases in any letter case, and false for a text that
\* holds neither a phrase nor one of the two dates.
C8_Phrases ==
    fret.done =>
        LET t == fcall.date_text
            phrases == { <<"h","o","u","r","s"," ","a","g","o">>,
                         <<"h","o","u","r"," ","a","g","o">>,
                         <<"t","o","d","a","y">>,
                         <<"j","u","s","t"," ","n","o","w">>,
                         <<"1"," ","d","a","y"," ","a","g","o">>,
                         <<"y","e","s","t","e","r","d","a","y">> }
            dates == {strftime(fcall.now), strftime(PrevDay(fcall.now))}
            has_phrase == \E p \in phrases : IsSubstring(p, Lower(t))
            has_date == \E d \in dates : IsSubstring(Lower(d), Lower(t))
        IN  IF t = None \/ t = <<>> THEN fret.value = FALSE
            ELSE /\ has_phrase => fret.value = TRUE
                 /\ (~has_phrase /\ ~has_date) => fret.value = FALSE

\* The classifier has answered True on a phrase written in capitals.
C8_Witness ==
    /\ fret.done
    /\ fcall.date_text = <<"T","O","D","A","Y">>
    /\ fret.value = TRUE

\* C9: is_recent_job is true for a text that holds the current or the
\* previous date as DD Mon YYYY, in any letter case.
C9_Dates ==
    fret.done =>
        LET t == fcall.date_text
            dates == {strftime(fcall.now), strftime(PrevDay(fcall.now))}
        IN  (t # None /\ \E d \in dates : IsSubstring(Lower(d), Lower(t)))
                => fret.value = TRUE

\* C10 as stated: every posting an adapter returns has is_recent equal to
\* is_recent_job of its date_posted.
C10_AllAdapters ==
    fret.done =>
        \A k \in 1..Len(fret.value) :
            fret.value[k].is_recent = is_recent_job(fret.value[k].date_posted, fcall.now)

\* C10 amended: the ReliefWeb adapters and the UNjobs adapter set is_recent
\* to is_recent_job of date_posted; a Devex posting has is_recent True.
C10_AllButDevex ==
    fret.done =>
        \A k \in 1..Len(fret.value) :
            IF fcall.op = "scrape_devex"
            THEN fret.value[k].is_recent = TRUE
            ELSE fret.value[k].is_recent
                    = is_recent_job(fret.value[k].date_posted, fcall.now)

\* An adapter has returned a posting flagged recent and one that is not.
C10_Witness ==
    /\ fret.done
    /\ fcall.op # "scrape_devex"
    /\ \E k \in 1..Len(fret.value) : fret.value[k].is_recent
    /\ \E k \in 1..Len(fret.value) : ~fret.value[k].is_recent

\* C11: the stored relevance_score is round(k / V, 2) for k the number of
\* distinct keywords found in the scored text and V the length of the keyword
\* list: a keyword counts once.
C11_DistinctKeywords ==
    fret.done =>
        \A n \in 1..Len(fret.value.jobs) :
            LET v == IF fcall.variant = "fn" THEN "fn" ELSE "branch"
                kws == keywords_of(v)
                text == job_text(v, fcall.jobs[n])
                found == {kws[m] : m \in {x \in 1..Len(kws) : IsSubstring(kws[x], text)}}
            IN  fret.value.jobs[n].relevance_score = Round2(Cardinality(found), Len(kws))

\* C12: every scored job has a relevance_score between 0 and 1 (0 and 100
\* hundredths), and 0 when its text holds no keyword.
C12_ScoreRange ==
    fret.done =>
        \A n \in 1..Len(fret.value.jobs) :
            LET v == IF fcall.variant = "fn" THEN "fn" ELSE "branch"
                kws == keywords_of(v)
                text == job_text(v, fcall.jobs[n])
            IN  /\ fret.value.jobs[n].relevance_score \in 0..100
                /\ (\A m \in 1..Len(kws) : ~IsSubstring(kws[m], text))
                      => fret.value.jobs[n].relevance_score = 0

\* The filter has scored a job with an empty title 0 and another job above 0.
C12_Witness ==
    /\ fret.done
    /\ \E n \in 1..Len(fret.value.jobs) :
          fcall.jobs[n].title = <<>> /\ fret.value.jobs[n].relevance_score = 0
    /\ \E n \in 1..Len(fret.value.jobs) : fret.value.jobs[n].relevance_score > 0

\* C13: is_public_health is set exactly when the stored relevance_score is
\* at least the threshold of the file: 0.2 in fn.py, 0.3 in branch.py.
C13_FlagIffThreshold ==
    fret.done =>
        \A n \in 1..Len(fret.value.jobs) :
            fret.value.jobs[n].is_public_health
                <=> (fret.value.jobs[n].relevance_score
                        >= (IF fcall.variant = "fn" THEN 20 ELSE 30))

\* fn.py has scored one job 0.17, not flagged, and one 0.22, flagged and
\* returned alone.
C13_Witness ==
    /\ fret.done
    /\ fcall.variant = "fn"
    /\ \E a, b \in 1..Len(fret.value.jobs) :
          /\ fret.value.jobs[a].relevance_score = 17
          /\ ~fret.value.jobs[a].is_public_health
          /\ fret.value.jobs[b].relevance_score = 22
          /\ fret.value.filtered_jobs = <<fret.value.jobs[b]>>

\* C14: with no search term or no site ticked the run reports an error and
\* stops there: nothing is requested, no driver is started, nothing is found.
C14_ConfigurationRejected ==
    /\ []((search_terms = <<>> \/ sites = <<>>) =>
            /\ pc \in {"clicked", "rejected"}
            /\ log = <<>>
            /\ driver = "none"
            /\ all_jobs = <<>>
            /\ unique_jobs = <<>>
            /\ pc = "rejected" => Len(errors) = 1)
    /\ [][(pc = "clicked" /\ (search_terms = <<>> \/ sites = <<>>)) =>
            (pc' = "rejected" /\ Len(errors') = Len(errors) + 1)]_vars

\* A run of branch.py or JOB.py with a term and no site has been rejected.
C14_Witness ==
    /\ pc = "rejected"
    /\ program # "fn"
    /\ search_terms # <<>>
    /\ sites = <<>>
    /\ errors = <<"Please select at least one website to scrape.">>

\* C15: a ReliefWeb turn of fn.py requests the API first and the search page
\* second exactly when the API path raised; otherwise the turn adds what the
\* API path made of an answer, and nothing else is requested.
C15_ApiFirst ==
    [][(program = "fn" /\ pc = "site" /\ j' = j + 1 /\ sites[j] = "reliefweb") =>
        LET IsRequest(e) == e.ev = "request"
            reqs == SelectSeq(SubSeq(log', Len(log) + 1, Len(log')), IsRequest)
        IN  /\ Len(reqs) \in {1, 2}
            /\ reqs[1].path = "api"
            /\ Len(reqs) = 2 <=> <<i, "reliefweb">> \in failed'
            /\ Len(reqs) = 2 => reqs[2].path = "html"
            /\ Len(reqs) = 1 =>
                  \E api \in ApiResponses :
                      /\ api.status = "ok"
                      /\ term_jobs' = term_jobs \o
                            scrape_reliefweb(api, NoResponse, search_terms[i],
                                             ReliefwebMaxJobs, clock)]_vars

\* A finished run of fn.py on ReliefWeb alone in which the API answered with
\* no job: the delay follows the API request at once and nothing is found.
C15_Witness ==
    /\ pc = "done"
    /\ program = "fn"
    /\ sites = <<"reliefweb">>
    /\ Len(search_terms) = 1
    /\ failed = {}
    /\ Len(log) >= 2
    /\ log[1] = RequestEvent(1, "reliefweb", "api")
    /\ log[2].ev = "sleep"
    /\ all_jobs = <<>>

\* C16: an adapter of fn.py whose last answer is not a 2xx answer (or never
\* came) returns no posting.
C16_FailureGivesNothing ==
    (fret.done /\ fcall.op \in {"scrape_reliefweb", "scrape_devex"}) =>
        LET last == IF fcall.op = "scrape_reliefweb" /\ fcall.first.status # "ok"
                    THEN fcall.second ELSE fcall.first
        IN  last.status # "ok" => fret.value = <<>>

\* C17: no posting an adapter returns has a placeholder or an empty title.
C17_NoPlaceholderTitle ==
    fret.done =>
        \A k \in 1..Len(fret.value) : fret.value[k].title \notin {NoTitle, <<>>}

\* C18: no posting an adapter returns has an empty or a missing url.
C18_UrlNeverEmpty ==
    fret.done =>
        \A k \in 1..Len(fret.value) : fret.value[k].url \notin {<<>>, None}

\* C19: between the requests of two different (term, site) pairs lies the
\* delay between sites, between the requests of two terms also the delay
\* between terms, and a finished run has slept after its last term.
C19_DelayBetweenCalls ==
    LET Delays(a, b, secs) ==
            {c \in (a + 1)..(b - 1) : log[c] = SleepEvent(secs)}
    IN  /\ \A a, b \in 1..Len(log) :
              (a < b /\ log[a].ev = "request" /\ log[b].ev = "request") =>
                  IF log[a].term # log[b].term
                  THEN /\ Delays(a, b, SiteDelay) # {}
                       /\ Delays(a, b, TermDelay) # {}
                       /\ Cardinality(Delays(a, b, SiteDelay) \cup Delays(a, b, TermDelay)) >= 2
                  ELSE log[a].site # log[b].site => Delays(a, b, SiteDelay) # {}
        /\ pc = "done" => log[Len(log)] = SleepEvent(TermDelay)

\* A finished run of fn.py over two terms and two sites in which some call
\* failed and found nothing, and the API request was followed by the request
\* of the search page.
C19_Witness ==
    /\ pc = "done"
    /\ program = "fn"
    /\ Len(search_terms) = 2
    /\ Len(sites) = 2
    /\ failed # {}
    /\ \E e \in 1..(Len(log) - 1) : log[e].path = "api" /\ log[e + 1].path = "html"

\* C20: a started run that has ended shows progress 1.0 and a closing status
\* line whose count is the length of the list handed over.
C20_TerminalEvent ==
    pc \in {"done", "aborted"} =>
        /\ progress = [num |-> 1, den |-> 1]
        /\ status.kind = "complete"
        /\ status.n = Len(unique_jobs)

\* C21: the filter sets relevance_score and is_public_health on every job of
\* its input and leaves the rest of the job alone; it returns, in input
\* order, exactly the jobs whose score is at least the threshold, each of
\* them flagged.
C21_FilterKeepsPassing ==
    fret.done =>
        LET in == fcall.jobs
            out == fret.value.jobs
            kept == fret.value.filtered_jobs
            threshold == IF fcall.variant = "fn" THEN 20 ELSE 30
            pass == {n \in 1..Len(out) : out[n].relevance_score >= threshold}
            pos(n) == Cardinality({m \in pass : m <= n})
        IN  /\ Len(out) = Len(in)
            /\ \A n \in 1..Len(in) :
                  /\ DOMAIN out[n] = DOMAIN in[n] \cup {"relevance_score", "is_public_health"}
                  /\ \A f \in DOMAIN in[n] : out[n][f] = in[n][f]
                  /\ out[n].is_public_health = (n \in pass)
            /\ Len(kept) = Cardinality(pass)
            /\ \A n \in pass : kept[pos(n)] = out[n]
            /\ \A m \in 1..Len(kept) :
                  kept[m].is_public_health /\ kept[m].relevance_score >= threshold

\* branch.py has scored a list of two: the first job, at 0.25, is dropped
\* with its score set, the second, at 0.31, is returned alone.
C21_Witness ==
    /\ fret.done
    /\ fcall.variant = "branch"
    /\ Len(fcall.jobs) = 2
    /\ fret.value.jobs[1].relevance_score = 25
    /\ ~fret.value.jobs[1].is_public_health
    /\ fret.value.jobs[2].relevance_score = 31
    /\ fret.value.filtered_jobs = <<fret.value.jobs[2]>>

\* C22: in branch.py, from the moment the scraper is constructed, the browser
\* stays open and scraper.close() is not called while the run is under way,
\* and at every exit, by the return or by an exception that leaves the try,
\* close() has been called exactly once and the browser is closed.
C22_ClosedExactlyOnce ==
    (program = "branch" /\ driver # "none") =>
        IF pc \in {"done", "raised"}
        THEN driver = "closed" /\ close_calls = 1
        ELSE driver = "open" /\ close_calls = 0

\* branch.py: a site failed for the first term, then status_text.text raised
\* at the top of the second turn; the browser was closed on the way out.
C22_Witness ==
    /\ program = "branch"
    /\ pc = "raised"
    /\ i = 2
    /\ failed # {}
    /\ driver = "closed"
    /\ close_calls = 1

\* C23: the collection handed over has the same set of urls as the
\* accumulated list and one posting for each of them, and a posting of the
\* accumulated list that is not handed over comes after a posting of the same
\* url that is.
C23_NoUrlLost ==
    pc = "done" =>
        LET urls(list) == {list[k].url : k \in 1..Len(list)}
            retained(job) == \E m \in 1..Len(unique_jobs) : unique_jobs[m] = job
        IN  /\ urls(unique_jobs) = urls(all_jobs)
            /\ Len(unique_jobs) = Cardinality(urls(all_jobs))
            /\ \A k \in 1..Len(all_jobs) :
                  \/ retained(all_jobs[k])
                  \/ \E a \in 1..(k - 1) :
                        all_jobs[a].url = all_jobs[k].url /\ retained(all_jobs[a])

\* A finished run whose accumulated list held three or more urls, one of them
\* the empty url of a Devex posting without a link, found for both terms and
\* handed over once.
C23_Witness ==
    /\ pc = "done"
    /\ Cardinality({all_jobs[k].url : k \in 1..Len(all_jobs)}) >= 3
    /\ Cardinality({k \in 1..Len(all_jobs) : all_jobs[k].url = <<>>}) >= 2
    /\ Cardinality({m \in 1..Len(unique_jobs) : unique_jobs[m].url = <<>>}) = 1
    /\ Len(unique_jobs) < Len(all_jobs)

====
